---- MODULE Spec2Model ----
(***************************************************************************)
(* Job queue, worker loop and rate limiter of the Stario platform          *)
(* (stario_common.redis_client.RedisClient, the video-gen worker and the   *)
(* api-gateway handlers that use them), as a state machine over the Redis  *)
(* store they share.  One step of a task is one awaited store command or   *)
(* one awaited callback: these are the only suspension points of the       *)
(* asyncio tasks.                                                          *)
(***************************************************************************)
EXTENDS Integers, Sequences, FiniteSets, TLC

(***************************************************************************)
(* Bounds of the model.                                                    *)
(***************************************************************************)
\* requests to the job pipeline (generate, status, cancel)
MaxCalls == 2
\* requests to the rate limiter by itself: a burst of RateLimit + 5
MaxBurst == 7
\* gateway requests in flight at once
NumReq == 2
\* times the store becomes unreachable
MaxFaults == 1
\* half windows the clock advances
MaxTicks == 2
\* direct calls of enqueue and update_job
MaxApiCalls == 3
\* uploads to face-similarity
MaxUploads == 2
\* seconds the clock of face-similarity advances
MaxTime == 5
\* times the object store becomes unreachable
MaxS3Faults == 1
\* direct calls of delete_file
MaxDeletes == 1
\* jobs started in ai-poster-api
MaxPosterJobs == 2

(***************************************************************************)
(* Configuration (stario_common.config.Settings and call sites).           *)
(***************************************************************************)
\* max_requests: settings.rate_limit_requests_per_minute, 60 by default,
\* run here at a small value
RateLimit == 2

rate_limit_requests_per_minute == RateLimit
window_seconds == 60
gpu_max_concurrent_jobs == 4
delay_seconds == 3

Reqs == 1 .. NumReq
Identities == {"10.0.0.1", "10.0.0.2"}

(***************************************************************************)
(* Python values and their JSON text.  A Python value is a tagged record;  *)
(* "obj" is a value json cannot encode by itself (a UUID, a datetime)      *)
(* whose str() is the field s.  A JSON token is what json.dumps writes for *)
(* it, and json.loads reads a token back to the Python value it denotes.   *)
(***************************************************************************)
PyStr(s) == [t |-> "str", s |-> s]
PyInt(s) == [t |-> "int", s |-> s]
PyNone == [t |-> "none", s |-> "None"]
PyObj(s) == [t |-> "obj", s |-> s]

\* str(v), as an f-string or default=str formats a value
str(v) == v.s

\* json.dumps can encode the value without a default hook
Encodable(v) == v.t # "obj"

\* json.dumps of one value; default=str turns an unencodable value into
\* the JSON string of its str()
dumps_value(v) ==
    CASE v.t = "str" -> [k |-> "string", s |-> v.s]
      [] v.t = "int" -> [k |-> "number", s |-> v.s]
      [] v.t = "none" -> [k |-> "null", s |-> "null"]
      [] v.t = "obj" -> [k |-> "string", s |-> str(v)]

\* json.loads of one token
loads_value(tk) ==
    CASE tk.k = "string" -> PyStr(tk.s)
      [] tk.k = "number" -> PyInt(tk.s)
      [] tk.k = "null" -> PyNone

\* a dict is a function from its keys to values
dumps_dict(d) == [key \in DOMAIN d |-> dumps_value(d[key])]
loads_dict(j) == [key \in DOMAIN j |-> loads_value(j[key])]
EncodableDict(d) == \A key \in DOMAIN d : Encodable(d[key])

\* d.get(key) of a dict
dict_get(d, key) == IF key \in DOMAIN d THEN d[key] ELSE PyNone

(***************************************************************************)
(* The job dict of enqueue: {"id", "status", "data"} and, once update_job  *)
(* has stored one, "result".  has_result says whether the key is present.  *)
(***************************************************************************)
NoDict == [none |-> PyNone]

dumps_job(job) ==
    [id |-> dumps_value(job.id), status |-> dumps_value(job.status),
     data |-> dumps_dict(job.data), has_result |-> job.has_result,
     result |-> dumps_dict(job.result)]

loads_job(text) ==
    [id |-> loads_value(text.id), status |-> loads_value(text.status),
     data |-> loads_dict(text.data), has_result |-> text.has_result,
     result |-> loads_dict(text.result)]

\* f"job:{job_id}"
job_key(job_id) == "job:" \o str(job_id)

\* str(uuid.uuid4()): the n-th identifier drawn, all distinct
uuid4(n) == "uuid-" \o ToString(n)

(***************************************************************************)
(* State.                                                                  *)
(*   storeUp, faults  the Redis server answers commands; outages so far    *)
(*   now              the server's clock, in seconds                       *)
(*   counters         db 0: rate-limit keys -> [v, ttl]; v = 0 is an       *)
(*                    absent key, ttl = -1 a key with no expiry, otherwise *)
(*                    the second at which the key expires                  *)
(*   queue            db 1: the list "video_generation", head first        *)
(*   kv               db 1: string keys "job:{id}" -> JSON text            *)
(*   uuids            identifiers drawn from uuid.uuid4() so far           *)
(*   req              the api-gateway's in-flight HTTP requests            *)
(*   w                the VideoGenerationWorker and its task               *)
(*   can              video-gen's DELETE /jobs/{job_id} handler            *)
(*   api              a direct caller of the RedisClient job operations    *)
(*   vg_redis         video-gen's module global _redis                     *)
(*   hist             history: what has been pushed, popped, returned      *)
(*   ev               what the latest step told its caller                 *)
(***************************************************************************)
VARIABLES storeUp, faults, now, counters, queue, kv, uuids, req, w, can, api,
          vg_redis, hist, ev, face, poster

vars == <<storeUp, faults, now, counters, queue, kv, uuids, req, w, can, api,
          vg_redis, hist, ev, face, poster>>

storeVars == <<storeUp, faults, now>>

\* the state of the services that do not use the job queue
svcVars == <<face, poster>>

\* the state of the gateway, the queue and video-gen
queueVars == <<storeUp, faults, now, counters, queue, kv, uuids, req, w, can,
               api, vg_redis, hist>>

\* f"rate_limit:{user_id or client_ip}"; request.state.user_id is never set
\* before the middleware runs, so the identity is the client address
client_key(ident) == "rate_limit:" \o ident
RateKeys == {client_key(i) : i \in Identities}

Max(a, b) == IF a >= b THEN a ELSE b

(***************************************************************************)
(* Redis commands, each atomic at the server.                              *)
(***************************************************************************)
\* LPUSH: insert at the head of the list
\* RPUSH key x, the push at the end BRPOP takes from
rpush(q, x) == q \o <<x>>

lpush(q, x) == <<x>> \o q

\* BRPOP: the element at the tail, and the list without it
brpop_value(q) == q[Len(q)]
\* a pop that reads the last element and leaves it in the list
brpop_rest_peek(q) == q

brpop_rest(q) == SubSeq(q, 1, Len(q) - 1)

\* BRPOP key timeout on an empty list waits timeout seconds and answers nil;
\* timeout 0 waits until an element is pushed
\* the timeouts dequeue is called with: its default, and the worker's
default_timeout == 0
worker_timeout == 1
Timeouts == {default_timeout, worker_timeout}

brpop_blocks(q, timeout) == q = <<>> /\ timeout = 0

\* SET key value (no expiry)
set(store, key, text) ==
    [k \in DOMAIN store \cup {key} |-> IF k = key THEN text ELSE store[k]]

AbsentCounter == [v |-> 0, ttl |-> -1]

\* INCR: an absent key counts as 0; the key keeps the ttl it has
\* a read-then-write increment that loses the update of a call racing with
\* the call that created the counter
incr_lost(c) ==
    [v |-> IF c.v >= 1 /\ c.ttl = -1 THEN c.v ELSE c.v + 1, ttl |-> c.ttl]

incr(c) == [v |-> c.v + 1, ttl |-> c.ttl]

\* EXPIRE key seconds at time t: no effect on an absent key
expire(c, seconds, t) == IF c.v = 0 THEN c ELSE [v |-> c.v, ttl |-> t + seconds]

\* the server drops every key whose expiry time has come
expire_keys(cs, t) ==
    [k \in DOMAIN cs |->
        IF cs[k].ttl # -1 /\ cs[k].ttl <= t THEN AbsentCounter ELSE cs[k]]

\* a RedisClient method reaching a store command: the guard
\* "if not self._queue_client: raise RuntimeError" and the command itself,
\* which raises a connection error while the server is unreachable
store_call(connected, up) ==
    IF ~connected THEN "RuntimeError"
    ELSE IF ~up THEN "ConnectionError"
    ELSE "ok"

(***************************************************************************)
(* Events: what the latest step told its caller.                           *)
(***************************************************************************)
NoRate == [key |-> "", k |-> 0, up |-> TRUE, current |-> 0, outcome |-> "",
           allowed |-> FALSE, remaining |-> 0, next |-> ""]
NoOp == [op |-> "", connected |-> TRUE, up |-> TRUE, raised |-> FALSE]
NoPoll == [job_id |-> "", code |-> 0, status |-> PyNone,
           error_message |-> PyNone]
NoEnd == [eid |-> "", how |-> "none", msg |-> "", status |-> "",
          result |-> NoDict, propagated |-> FALSE]
\* the JSON text of no job
NoText ==
    dumps_job([id |-> PyStr(""), status |-> PyStr("pending"), data |-> NoDict,
               has_result |-> FALSE, result |-> NoDict])

NoEv == [rl |-> NoRate, op |-> NoOp, poll |-> NoPoll, end |-> NoEnd,
         resp |-> [code |-> 0, body |-> ""],
         fs |-> [op |-> "", key |-> "", outcome |-> ""],
         deq |-> [by |-> "", timeout |-> 0, id |-> ""],
         upd |-> [wrote |-> FALSE, repeat |-> FALSE,
                  prev |-> NoText]]

\* a job operation ended: on which client and store, and how
OpEv(op, connected, up, raised) ==
    [op |-> op, connected |-> connected, up |-> up, raised |-> raised]

(***************************************************************************)
(* RedisClient.get_job: the decoded job dict under job:{job_id}, if any.   *)
(***************************************************************************)
has_job(store, job_id) == job_key(job_id) \in DOMAIN store
get_job(store, job_id) == loads_job(store[job_key(job_id)])

(***************************************************************************)
(* RedisClient.enqueue: the job dict, its LPUSH and its SET.               *)
(***************************************************************************)
new_job(eid, job_data) ==
    [id |-> PyStr(eid), status |-> PyStr("pending"), data |-> job_data,
     has_result |-> FALSE, result |-> NoDict]

enqueue_push(q, eid, job_data) == lpush(q, dumps_job(new_job(eid, job_data)))

enqueue_store(store, eid, job_data) ==
    set(store, job_key(PyStr(eid)), dumps_job(new_job(eid, job_data)))

(***************************************************************************)
(* RedisClient.check_rate_limit, after INCR returned current.              *)
(***************************************************************************)
\* remaining without the clamp at zero
remaining_unclamped(max_requests, current) == max_requests - current

remaining_of(max_requests, current) == Max(0, max_requests - current)
allowed_of(max_requests, current) == current <= max_requests

(***************************************************************************)
(* api-gateway: one HTTP request passes rate_limit_middleware (the         *)
(* outermost middleware) and then its route handler.  The gateway's        *)
(* lifespan awaits get_redis() before any request is served, so its        *)
(* client is connected.  pc names the store command the request waits for. *)
(***************************************************************************)
IdleReq ==
    [pc |-> "idle", kind |-> "", ident |-> "", arg |-> "", current |-> 0,
     k |-> 0, job_id |-> "", eid |-> ""]

\* JSON bodies of POST /videos/generate: the fields present, the text of
\* custom_message and its length, and duration_seconds.  The second lacks
\* custom_message and recipient_name, the third has a message of 501
\* characters, the fourth a duration of 45
RequestBodies ==
    [valid |-> [fields |-> {"artist_id", "custom_message", "recipient_name"},
                custom_message |-> "hi", message_len |-> 2,
                duration_seconds |-> "15"],
     missing |-> [fields |-> {"artist_id"},
                  custom_message |-> "", message_len |-> 0,
                  duration_seconds |-> "15"],
     long |-> [fields |-> {"artist_id", "custom_message", "recipient_name"},
               custom_message |-> "AAA...A", message_len |-> 501,
               duration_seconds |-> "15"],
     bad_duration |-> [fields |-> {"artist_id", "custom_message",
                                   "recipient_name"},
                       custom_message |-> "Test message", message_len |-> 12,
                       duration_seconds |-> "45"]]

BodyNames == DOMAIN RequestBodies

\* VideoGenerationRequest: artist_id, custom_message and recipient_name are
\* required; custom_message: str and duration_seconds: int = 15 carry no
\* further constraint
VideoGenerationRequest_valid(body) ==
    {"artist_id", "custom_message", "recipient_name"} \subseteq body.fields

\* the payload generate_video hands to enqueue for a request body
video_payload_of(job_id, body) ==
    [job_id |-> PyStr(job_id), prompt_template_id |-> PyNone,
     custom_message |-> PyStr(body.custom_message),
     duration_seconds |-> PyInt(body.duration_seconds)]

\* the payload of the request in slot r
video_payload(r) == video_payload_of(req[r].job_id, RequestBodies[req[r].arg])

\* what rate_limit_middleware does with the outcome of check_rate_limit:
\* "raised" leaves the middleware as an exception (a 500 response),
\* "denied" is the 429 response, "allowed" calls call_next
\* a middleware that catches the error of the check and lets the request pass
after_check_open(outcome) ==
    CASE outcome = "raised" -> "call_next"
      [] outcome = "denied" -> "reject"
      [] outcome = "allowed" -> "call_next"

after_check(outcome) ==
    CASE outcome = "raised" -> "error"
      [] outcome = "denied" -> "reject"
      [] outcome = "allowed" -> "call_next"

\* per key and window, how many checks were allowed or denied, and whether
\* one raised
CountRate(h, key, outcome) ==
    [h EXCEPT !.allowed[key] = IF outcome = "allowed" THEN @ + 1 ELSE @,
              !.denied[key] = IF outcome = "denied" THEN @ + 1 ELSE @,
              !.raised[key] = @ \/ outcome = "raised"]

\* a request arrives: the middleware builds client_key and issues INCR
Arrive(r, ident, kind, arg) ==
    /\ req[r].pc = "idle"
    /\ \A r2 \in Reqs : r2 < r => req[r2].pc # "idle"
    /\ hist.calls < (IF kind = "other" THEN MaxBurst ELSE MaxCalls)
    /\ req' = [req EXCEPT ![r] = [IdleReq EXCEPT !.pc = "incr", !.kind = kind,
                                   !.ident = ident, !.arg = arg]]
    /\ hist' = [hist EXCEPT !.calls = @ + 1]
    /\ ev' = NoEv
    /\ UNCHANGED <<svcVars, storeVars, counters, queue, kv, uuids, w, can, api, vg_redis>>

\* check_rate_limit has returned (allowed, remaining) to the middleware, or
\* raised: the request is answered, or handed to its route handler, which
\* runs up to its first store command.  k is the call's place among the
\* INCRs of its key in this window.
Checked(r, h0, raised, current, k) ==
    LET key == client_key(req[r].ident)
        allowed == allowed_of(rate_limit_requests_per_minute, current)
        outcome == IF raised THEN "raised"
                   ELSE IF allowed THEN "allowed" ELSE "denied"
        entry == [key |-> key, k |-> k, up |-> storeUp, current |-> current,
                  outcome |-> outcome, allowed |-> allowed,
                  remaining |-> remaining_of(rate_limit_requests_per_minute,
                                             current),
                  next |-> after_check(outcome)]
    IN  /\ hist' = CountRate(h0, key, outcome)
        /\ ev' = [NoEv EXCEPT
                    !.rl = entry,
                    !.resp = IF /\ after_check(outcome) = "call_next"
                                /\ req[r].kind = "generate"
                                /\ ~VideoGenerationRequest_valid(
                                      RequestBodies[req[r].arg])
                             THEN [code |-> 422, body |-> req[r].arg]
                             ELSE @]
        /\ IF after_check(outcome) # "call_next"
           THEN /\ req' = [req EXCEPT ![r] = IdleReq]
                /\ uuids' = uuids
           ELSE CASE /\ req[r].kind = "generate"
                     /\ ~VideoGenerationRequest_valid(RequestBodies[req[r].arg]) ->
                       /\ req' = [req EXCEPT ![r] = IdleReq]
                       /\ uuids' = uuids
                  [] /\ req[r].kind = "generate"
                     /\ VideoGenerationRequest_valid(RequestBodies[req[r].arg]) ->
                       /\ req' = [req EXCEPT ![r].pc = "lpush",
                                             ![r].current = current, ![r].k = k,
                                             ![r].job_id = uuid4(uuids + 1),
                                             ![r].eid = uuid4(uuids + 2)]
                       /\ uuids' = uuids + 2
                  [] req[r].kind = "status" ->
                       /\ req' = [req EXCEPT ![r].pc = "get",
                                             ![r].current = current, ![r].k = k]
                       /\ uuids' = uuids
                  [] OTHER ->
                       /\ req' = [req EXCEPT ![r] = IdleReq]
                       /\ uuids' = uuids

\* check_rate_limit: current = await self._client.incr(key)
check_rate_limit_incr(r) ==
    LET key == client_key(req[r].ident)
        c == incr(counters[key])
        k == hist.win[key] + 1
    IN  /\ req[r].pc = "incr"
        /\ IF store_call(TRUE, storeUp) # "ok"
           THEN /\ Checked(r, hist, TRUE, 0, 0)
                /\ counters' = counters
           ELSE /\ counters' = [counters EXCEPT ![key] = c]
                /\ IF c.v = 1
                   THEN /\ req' = [req EXCEPT ![r].pc = "expire",
                                              ![r].current = c.v, ![r].k = k]
                        /\ hist' = [hist EXCEPT !.win[key] = k]
                        /\ ev' = NoEv
                        /\ uuids' = uuids
                   ELSE Checked(r, [hist EXCEPT !.win[key] = k], FALSE, c.v, k)
        /\ UNCHANGED <<svcVars, storeVars, queue, kv, w, can, api, vg_redis>>

\* check_rate_limit: await self._client.expire(key, window_seconds), which
\* only the call that saw current == 1 issues
check_rate_limit_expire(r) ==
    LET key == client_key(req[r].ident)
    IN  /\ req[r].pc = "expire"
        /\ IF store_call(TRUE, storeUp) # "ok"
           THEN /\ Checked(r, hist, TRUE, req[r].current, req[r].k)
                /\ counters' = counters
           ELSE /\ counters' = [counters EXCEPT
                                  ![key] = expire(@, window_seconds, now)]
                /\ Checked(r, hist, FALSE, req[r].current, req[r].k)
        /\ UNCHANGED <<svcVars, storeVars, queue, kv, w, can, api, vg_redis>>

\* enqueue: await self._queue_client.lpush(queue_name, json.dumps(job))
enqueue_lpush(r) ==
    /\ req[r].pc = "lpush"
    /\ IF store_call(TRUE, storeUp) # "ok"
       THEN /\ req' = [req EXCEPT ![r] = IdleReq]
            /\ ev' = [NoEv EXCEPT !.op = OpEv("enqueue", TRUE, storeUp, TRUE)]
            /\ UNCHANGED <<queue, hist>>
       ELSE /\ queue' = enqueue_push(queue, req[r].eid,
                                     video_payload(r))
            /\ req' = [req EXCEPT ![r].pc = "set"]
            /\ hist' = [hist EXCEPT !.pushed = Append(@, req[r].eid),
                                    !.depth = Max(@, Len(queue) + 1)]
            /\ ev' = NoEv
    /\ UNCHANGED <<svcVars, storeVars, counters, kv, uuids, w, can, api, vg_redis>>

\* enqueue: await self._queue_client.set(f"job:{job_id}", json.dumps(job));
\* enqueue returns its job_id, which generate_video drops: the response
\* carries the handler's own job_id
enqueue_set(r) ==
    /\ req[r].pc = "set"
    /\ IF store_call(TRUE, storeUp) # "ok"
       THEN /\ ev' = [NoEv EXCEPT !.op = OpEv("enqueue", TRUE, storeUp, TRUE)]
            /\ UNCHANGED <<kv, hist>>
       ELSE /\ kv' = enqueue_store(kv, req[r].eid, video_payload(r))
            /\ ev' = [NoEv EXCEPT
                        !.op = OpEv("enqueue", TRUE, storeUp, FALSE),
                        !.resp = [code |-> 200, body |-> req[r].arg]]
            /\ hist' = [hist EXCEPT
                          !.enqueued = @ \cup
                             {[eid |-> req[r].eid,
                               data |-> video_payload(r)]},
                          !.returned = @ \cup {req[r].job_id}]
    /\ req' = [req EXCEPT ![r] = IdleReq]
    /\ UNCHANGED <<svcVars, storeVars, counters, queue, uuids, w, can, api, vg_redis>>

\* job.get(key, default) for a key holding one value; the job dict has the
\* keys "id", "status", "data" and, once stored, "result"
job_get(job, key, default) ==
    CASE key = "id" -> job.id
      [] key = "status" -> job.status
      [] OTHER -> default

\* a status handler that reports a job it does not find as pending
job_status_lenient(store, job_id) ==
    [code |-> 200,
     status |-> IF has_job(store, job_id)
                THEN job_get(get_job(store, job_id), "status", PyStr("pending"))
                ELSE PyStr("pending"),
     error_message |-> PyNone]

\* get_job_status, of the gateway and of video-gen alike: if not job: 404;
\* else the response with status=job.get("status", "pending") and
\* error_message=job.get("error")
job_status_response(store, job_id) ==
    IF ~has_job(store, job_id)
    THEN [code |-> 404, status |-> PyNone, error_message |-> PyNone]
    ELSE [code |-> 200,
          status |-> job_get(get_job(store, job_id), "status", PyStr("pending")),
          error_message |-> job_get(get_job(store, job_id), "error", PyNone)]

\* the answer of a status handler, as the event of the step
poll_event(store, job_id) ==
    [job_id |-> job_id] @@ job_status_response(store, PyStr(job_id))

\* get_job_status: job = await redis.get_job(job_id); none is answered 404
get_job_status(r) ==
    LET job_id == PyStr(req[r].arg)
    IN  /\ req[r].pc = "get"
        /\ IF store_call(TRUE, storeUp) # "ok"
           THEN ev' = [NoEv EXCEPT !.op = OpEv("get_job", TRUE, storeUp, TRUE)]
           ELSE ev' = [NoEv EXCEPT
                         !.op = OpEv("get_job", TRUE, storeUp, FALSE),
                         !.poll = poll_event(kv, req[r].arg)]
        /\ req' = [req EXCEPT ![r] = IdleReq]
        /\ UNCHANGED <<svcVars, storeVars, counters, queue, kv, uuids, w, can, api,
                       vg_redis, hist>>

(***************************************************************************)
(* RedisClient.update_job(job_id, status, result): get_job, then, if a job *)
(* dict was found, assign status (and result when one is given) and SET    *)
(* the dict back, encoded with default=str.  A call is the record          *)
(* [job_id, status, given, result, sub, job_data]; sub is the command it   *)
(* waits for.                                                              *)
(***************************************************************************)
NoJob == new_job("", NoDict)

update_call(job_id, status, given, result) ==
    [job_id |-> job_id, status |-> status, given |-> given, result |-> result,
     sub |-> "get", job_data |-> NoJob]

NoCall == update_call(PyNone, "", FALSE, NoDict)

\* the arguments a call was made with
call_args(c) == update_call(c.job_id, c.status, c.given, c.result)

\* an update that writes the given result under "data"
assign_update_data(job_data, c) ==
    [job_data EXCEPT !.status = PyStr(c.status),
                     !.data = IF c.given THEN c.result ELSE @]

\* an update that appends the new status to the stored one
assign_update_append(job_data, c) ==
    [job_data EXCEPT !.status = PyStr(str(@) \o "," \o c.status),
                     !.has_result = IF c.given THEN TRUE ELSE @,
                     !.result = IF c.given THEN c.result ELSE @]

\* job_data["status"] = status; if result is not None: job_data["result"] = result
assign_update(job_data, c) ==
    [job_data EXCEPT !.status = PyStr(c.status),
                     !.has_result = IF c.given THEN TRUE ELSE @,
                     !.result = IF c.given THEN c.result ELSE @]

\* the call after its GET found job text under the key
update_job_found(store, c) ==
    [c EXCEPT !.sub = "set",
              !.job_data = assign_update(get_job(store, c.job_id), c)]

\* an update_job that stores a new job dict when it finds none
update_job_upsert(store, c) ==
    IF has_job(store, c.job_id)
    THEN update_job_found(store, c)
    ELSE [c EXCEPT !.sub = "set",
                   !.job_data = assign_update(new_job(str(c.job_id), NoDict), c)]

\* job_data = await self.get_job(job_id); if job_data: ... : the call after
\* its GET, with its SET to come or done
update_job_get(store, c) ==
    IF has_job(store, c.job_id)
    THEN update_job_found(store, c)
    ELSE [c EXCEPT !.sub = "done"]

\* the store after the call's SET
update_job_set(store, c) ==
    set(store, job_key(c.job_id), dumps_job(c.job_data))

(***************************************************************************)
(* video-gen: get_redis() returns the module global _redis, creating and   *)
(* connecting it on first use.  _redis is assigned before connect() is     *)
(* awaited; whether that await suspends the task depends on the redis      *)
(* library, so both are possible.  A task that finds _redis assigned but   *)
(* not connected gets RuntimeError("Redis not connected") from the         *)
(* operation it calls next.                                                *)
(***************************************************************************)
get_redis_results(g) ==
    CASE g = "None" -> {"connecting", "connected"}
      [] g = "connecting" -> {"unconnected"}
      [] g = "connected" -> {"connected"}

(***************************************************************************)
(* VideoGenerationWorker.                                                  *)
(***************************************************************************)
IdleWorker ==
    [pc |-> "init", running |-> FALSE, current_jobs |-> 0, eid |-> "",
     job_id |-> PyNone, phase |-> "", how |-> "none", msg |-> "",
     call |-> NoCall]

\* where start() continues after _process_queue raised: the except branch
\* logs, sleeps a second and loops again
\* a start() without the except branch: the exception ends the task
after_worker_error_exit == "stopped"

after_worker_error == "loop"

\* the result dict _process_job stores for a finished generation
job_result(video_url) ==
    [video_url |-> PyStr(video_url), thumbnail_url |-> PyStr("thumb.jpg"),
     duration_seconds |-> PyInt("15"), processing_time_ms |-> PyInt("35000")]

\* the result dict _process_job stores for a failed one: {"error": str(e)}
error_result(message) == [error |-> PyStr(message)]

\* what the generation callback may do: return a result, or raise an
\* exception whose str() is the message (empty for some exceptions)
Outcomes ==
    {[how |-> "returned", s |-> "video_1.mp4"],
     [how |-> "raised", s |-> "boom"],
     [how |-> "raised", s |-> ""]}

\* a worker that addresses the job by the id of its envelope
worker_envelope_id(job) == job.id

\* _process_queue and _process_job: job_id = job["data"].get("job_id")
worker_job_id(job) == dict_get(job.data, "job_id")

\* lifespan: asyncio.create_task(worker.start()) runs start() up to its loop
start ==
    /\ w.pc = "init"
    /\ w' = [w EXCEPT !.pc = "loop", !.running = TRUE]
    /\ ev' = NoEv
    /\ UNCHANGED <<svcVars, storeVars, counters, queue, kv, uuids, req, can, api,
                   vg_redis, hist>>

\* lifespan shutdown: await worker.stop().  The task made by
\* asyncio.create_task(worker.start()) has run up to its first await by
\* then: the lifespan yields to the event loop before it resumes
stop ==
    /\ ~hist.stop_called
    /\ w.pc # "init"
    /\ w' = [w EXCEPT !.running = FALSE]
    /\ hist' = [hist EXCEPT !.stop_called = TRUE, !.in_flight_at_stop = w.eid]
    /\ ev' = NoEv
    /\ UNCHANGED <<svcVars, storeVars, counters, queue, kv, uuids, req, can, api, vg_redis>>

\* start(): while self._running, and _process_queue up to its dequeue
process_queue_begin ==
    /\ w.pc = "loop"
    /\ IF ~w.running
       THEN /\ w' = [w EXCEPT !.pc = "stopped"]
            /\ ev' = NoEv
            /\ UNCHANGED <<vg_redis, hist>>
       ELSE IF w.current_jobs >= gpu_max_concurrent_jobs
       THEN /\ ev' = NoEv
            /\ UNCHANGED <<w, vg_redis, hist>>
       ELSE \E g \in get_redis_results(vg_redis) :
              CASE g = "connecting" ->
                     /\ vg_redis' = "connecting"
                     /\ w' = [w EXCEPT !.pc = "connect"]
                     /\ ev' = NoEv
                     /\ hist' = hist
                [] g = "connected" ->
                     /\ vg_redis' = "connected"
                     /\ w' = [w EXCEPT !.pc = "brpop"]
                     /\ ev' = NoEv
                     /\ hist' = hist
                [] g = "unconnected" ->
                     /\ vg_redis' = vg_redis
                     /\ IF store_call(FALSE, storeUp) # "ok"
                        THEN /\ w' = [w EXCEPT !.pc = after_worker_error]
                             /\ ev' = [NoEv EXCEPT
                                         !.op = OpEv("dequeue", FALSE, storeUp, TRUE)]
                             /\ hist' = [hist EXCEPT !.errors = TRUE,
                                                     !.errors_at = Len(hist.pushed)]
                        ELSE /\ w' = [w EXCEPT !.pc = "brpop"]
                             /\ ev' = NoEv
                             /\ hist' = hist
    /\ UNCHANGED <<svcVars, storeVars, counters, queue, kv, uuids, req, can, api>>

\* get_redis: await _redis.connect() has finished in the worker's task
worker_connected ==
    /\ w.pc = "connect"
    /\ vg_redis' = "connected"
    /\ w' = [w EXCEPT !.pc = "brpop"]
    /\ ev' = NoEv
    /\ UNCHANGED <<svcVars, storeVars, counters, queue, kv, uuids, req, can, api, hist>>

\* dequeue: brpop(queue_name, timeout=1) answers; on a job, _process_queue
\* counts it in and _process_job issues update_job(job_id, "processing")
dequeue ==
    /\ w.pc = "brpop"
    /\ IF store_call(TRUE, storeUp) # "ok"
       THEN /\ w' = [w EXCEPT !.pc = after_worker_error]
            /\ ev' = [NoEv EXCEPT !.op = OpEv("dequeue", TRUE, storeUp, TRUE)]
            /\ hist' = [hist EXCEPT !.errors = TRUE,
                                    !.errors_at = Len(hist.pushed)]
            /\ queue' = queue
       ELSE IF queue = <<>>
       THEN /\ w' = [w EXCEPT !.pc = "loop"]
            /\ ev' = [NoEv EXCEPT
                        !.op = OpEv("dequeue", TRUE, storeUp, FALSE),
                        !.deq = [by |-> "worker", timeout |-> worker_timeout,
                                 id |-> ""]]
            /\ UNCHANGED <<queue, hist>>
       ELSE LET job == loads_job(brpop_value(queue))
                job_id == worker_job_id(job)
            IN  /\ queue' = brpop_rest(queue)
                /\ w' = [w EXCEPT !.pc = "update",
                                  !.current_jobs = @ + 1,
                                  !.eid = str(job.id),
                                  !.job_id = job_id,
                                  !.phase = "processing",
                                  !.call = update_call(job_id, "processing",
                                                       FALSE, NoDict)]
                /\ ev' = [NoEv EXCEPT
                            !.op = OpEv("dequeue", TRUE, storeUp, FALSE),
                            !.deq = [by |-> "worker", timeout |-> worker_timeout,
                                     id |-> str(job.id)]]
                /\ hist' = [hist EXCEPT !.popped = Append(@, str(job.id))]
    /\ UNCHANGED <<svcVars, storeVars, counters, kv, uuids, req, can, api, vg_redis>>

\* a decrement after the await instead of in finally: skipped when
\* _process_job raises
current_jobs_after_await(n, propagated) == IF propagated THEN n ELSE n - 1

\* try: await self._process_job(...) finally: self._current_jobs -= 1
finally_current_jobs(n, propagated) == n - 1

\* the job's processing has ended: finally: self._current_jobs -= 1, and
\* control is back in start(); propagated says _process_job raised
job_ended(op, propagated) ==
    /\ w' = [w EXCEPT !.pc = IF propagated THEN after_worker_error ELSE "loop",
                      !.current_jobs = finally_current_jobs(@, propagated),
                      !.eid = "",
                      !.job_id = PyNone, !.phase = "",
                      !.how = "none", !.msg = "", !.call = NoCall]
    /\ hist' = [hist EXCEPT !.ended = Append(@, w.eid),
                            !.errors = IF propagated THEN TRUE ELSE @,
                            !.errors_at = IF propagated THEN Len(hist.pushed)
                                          ELSE @]
    /\ ev' = [NoEv EXCEPT
                !.op = op,
                !.end = [eid |-> w.eid, how |-> w.how, msg |-> w.msg,
                         status |-> w.call.status, result |-> w.call.result,
                         propagated |-> propagated]]

\* _process_job: update_job returned; what follows depends on which update
update_returned(op) ==
    IF w.phase = "processing"
    THEN /\ w' = [w EXCEPT !.pc = "generate", !.call = NoCall]
         /\ ev' = [NoEv EXCEPT !.op = op]
         /\ hist' = hist
    ELSE job_ended(op, FALSE)

\* _process_job: a store command of update_job raised.  Inside the try it
\* is caught by except Exception, which issues update_job(job_id, "failed",
\* {"error": str(e)}); raised by that update it leaves _process_job
update_raised(op, message) ==
    IF w.phase \in {"processing", "completed"}
    THEN /\ w' = [w EXCEPT !.phase = "failed",
                           !.call = update_call(w.job_id, "failed", TRUE,
                                                error_result(message))]
         /\ ev' = [NoEv EXCEPT !.op = op]
         /\ hist' = hist
    ELSE job_ended(op, TRUE)

\* _process_job: the pending store command of its update_job is answered
process_job_update ==
    /\ w.pc = "update"
    /\ IF store_call(TRUE, storeUp) # "ok"
       THEN /\ update_raised(OpEv("update_job", TRUE, storeUp, TRUE),
                             "Connection refused")
            /\ kv' = kv
       ELSE IF w.call.sub = "get"
       THEN IF update_job_get(kv, w.call).sub = "set"
            THEN /\ w' = [w EXCEPT !.call = update_job_get(kv, @)]
                 /\ ev' = NoEv
                 /\ UNCHANGED <<kv, hist>>
            ELSE /\ update_returned(OpEv("update_job", TRUE, storeUp, FALSE))
                 /\ kv' = kv
       ELSE /\ kv' = update_job_set(kv, w.call)
            /\ update_returned(OpEv("update_job", TRUE, storeUp, FALSE))
    /\ UNCHANGED <<svcVars, storeVars, counters, queue, uuids, req, can, api, vg_redis>>

\* _process_job: await generator.generate(...) ends
generate ==
    /\ w.pc = "generate"
    /\ \E o \in Outcomes :
         w' = [w EXCEPT
                 !.pc = "update", !.how = o.how,
                 !.msg = IF o.how = "raised" THEN o.s ELSE "",
                 !.phase = IF o.how = "returned" THEN "completed" ELSE "failed",
                 !.call = IF o.how = "returned"
                          THEN update_call(w.job_id, "completed", TRUE,
                                           job_result(o.s))
                          ELSE update_call(w.job_id, "failed", TRUE,
                                           error_result(o.s))]
    /\ ev' = NoEv
    /\ UNCHANGED <<svcVars, storeVars, counters, queue, kv, uuids, req, can, api,
                   vg_redis, hist>>

(***************************************************************************)
(* video-gen: DELETE /jobs/{job_id}, cancel_job: get_redis, then           *)
(* update_job(job_id, "cancelled").  The path parameter is any string a    *)
(* client sends: an identifier some handler drew, or none of them.         *)
(***************************************************************************)
IdleCancel == [pc |-> "idle", call |-> NoCall]

PathIds == {uuid4(n) : n \in 1 .. uuids} \cup {"no-such-job"}

\* a cancel_job that stores why the job was cancelled
cancel_call_reason(job_id) ==
    update_call(PyStr(job_id), "cancelled", TRUE,
                [reason |-> PyStr("cancelled by client")])

\* await redis.update_job(job_id, "cancelled")
cancel_call(job_id) == update_call(PyStr(job_id), "cancelled", FALSE, NoDict)

cancel_job_begin(job_id) ==
    /\ can.pc = "idle"
    /\ hist.calls < MaxCalls
    /\ hist' = [hist EXCEPT !.calls = @ + 1]
    /\ \E g \in get_redis_results(vg_redis) :
         LET call == cancel_call(job_id)
         IN  CASE g = "connecting" ->
                    /\ vg_redis' = "connecting"
                    /\ can' = [pc |-> "connect", call |-> call]
                    /\ ev' = NoEv
               [] g = "connected" ->
                    /\ vg_redis' = "connected"
                    /\ can' = [pc |-> "update", call |-> call]
                    /\ ev' = NoEv
               [] g = "unconnected" ->
                    /\ vg_redis' = vg_redis
                    /\ IF store_call(FALSE, storeUp) # "ok"
                       THEN /\ can' = IdleCancel
                            /\ ev' = [NoEv EXCEPT
                                        !.op = OpEv("update_job", FALSE,
                                                    storeUp, TRUE)]
                       ELSE /\ can' = [pc |-> "update", call |-> call]
                            /\ ev' = NoEv
    /\ UNCHANGED <<svcVars, storeVars, counters, queue, kv, uuids, req, w, api>>

\* get_redis: await _redis.connect() has finished in the handler's task
cancel_connected ==
    /\ can.pc = "connect"
    /\ vg_redis' = "connected"
    /\ can' = [can EXCEPT !.pc = "update"]
    /\ ev' = NoEv
    /\ UNCHANGED <<svcVars, storeVars, counters, queue, kv, uuids, req, w, api, hist>>

\* the ids of the envelopes waiting in the list
QueuedIds(q) == {str(loads_job(q[i]).id) : i \in 1..Len(q)}

\* cancel_job: the pending store command of its update_job is answered
cancel_job_update ==
    /\ can.pc = "update"
    /\ IF store_call(TRUE, storeUp) # "ok"
       THEN /\ can' = IdleCancel
            /\ ev' = [NoEv EXCEPT !.op = OpEv("update_job", TRUE, storeUp, TRUE)]
            /\ UNCHANGED <<kv, hist>>
       ELSE IF can.call.sub = "get"
       THEN IF update_job_get(kv, can.call).sub = "set"
            THEN /\ can' = [can EXCEPT !.call = update_job_get(kv, @)]
                 /\ ev' = NoEv
                 /\ UNCHANGED <<kv, hist>>
            ELSE /\ can' = IdleCancel
                 /\ ev' = [NoEv EXCEPT
                             !.op = OpEv("update_job", TRUE, storeUp, FALSE)]
                 /\ UNCHANGED <<kv, hist>>
       ELSE /\ kv' = update_job_set(kv, can.call)
            /\ can' = IdleCancel
            /\ ev' = [NoEv EXCEPT !.op = OpEv("update_job", TRUE, storeUp, FALSE)]
            /\ hist' = [hist EXCEPT
                          !.cancelled_in_queue =
                             @ \cup (QueuedIds(queue) \cap {str(can.call.job_id)})]
    /\ UNCHANGED <<svcVars, storeVars, counters, queue, uuids, req, w, api, vg_redis>>

(***************************************************************************)
(* A direct caller of the job operations on a connected RedisClient, as    *)
(* any service using stario_common may be: enqueue(queue_name, job_data)   *)
(* and update_job(job_id, status, result) with arguments of its choice.    *)
(***************************************************************************)
IdleApi ==
    [pc |-> "idle", eid |-> "", data |-> NoDict, call |-> NoCall, timeout |-> 0]


ApiPayloads ==
    {[text |-> PyStr("hi")],
     [text |-> PyStr("hi"), count |-> PyInt("3"), note |-> PyNone],
     [text |-> PyStr("hi"), when |-> PyObj("2026-01-01")]}

ApiStatuses == {"processing", "completed", "failed", "cancelled"}

\* result=None, or a dict; one holds a value only default=str can encode
ApiResults ==
    {[given |-> FALSE, result |-> NoDict],
     [given |-> TRUE, result |-> job_result("video_1.mp4")],
     [given |-> TRUE, result |-> error_result("boom")],
     [given |-> TRUE, result |-> [finished_at |-> PyObj("2026-01-01")]]}

\* enqueue: draws its job_id and encodes the job; json.dumps raises
\* TypeError on a value it cannot encode, before any store command
api_enqueue(job_data) ==
    /\ api.pc = "idle"
    /\ hist.api_calls < MaxApiCalls
    /\ hist' = [hist EXCEPT !.api_calls = @ + 1]
    /\ uuids' = uuids + 1
    /\ IF EncodableDict(job_data)
       THEN /\ api' = [IdleApi EXCEPT !.pc = "lpush", !.eid = uuid4(uuids + 1),
                                      !.data = job_data]
            /\ ev' = NoEv
       ELSE /\ api' = IdleApi
            /\ ev' = [NoEv EXCEPT !.op = OpEv("enqueue", TRUE, storeUp, TRUE)]
    /\ UNCHANGED <<svcVars, storeVars, counters, queue, kv, req, w, can, vg_redis>>

\* enqueue: its LPUSH, then its SET, are answered
api_enqueue_step ==
    /\ api.pc \in {"lpush", "set"}
    /\ IF store_call(TRUE, storeUp) # "ok"
       THEN /\ api' = IdleApi
            /\ ev' = [NoEv EXCEPT !.op = OpEv("enqueue", TRUE, storeUp, TRUE)]
            /\ UNCHANGED <<queue, kv, hist>>
       ELSE IF api.pc = "lpush"
       THEN /\ queue' = enqueue_push(queue, api.eid, api.data)
            /\ api' = [api EXCEPT !.pc = "set"]
            /\ hist' = [hist EXCEPT !.pushed = Append(@, api.eid),
                                    !.depth = Max(@, Len(queue) + 1)]
            /\ ev' = NoEv
            /\ kv' = kv
       ELSE /\ kv' = enqueue_store(kv, api.eid, api.data)
            /\ api' = IdleApi
            /\ hist' = [hist EXCEPT
                          !.enqueued = @ \cup {[eid |-> api.eid,
                                                data |-> api.data]}]
            /\ ev' = [NoEv EXCEPT !.op = OpEv("enqueue", TRUE, storeUp, FALSE)]
            /\ queue' = queue
    /\ UNCHANGED <<svcVars, storeVars, counters, uuids, req, w, can, vg_redis>>

api_update_job(job_id, status, res) ==
    /\ api.pc = "idle"
    /\ hist.api_calls < MaxApiCalls
    /\ hist' = [hist EXCEPT !.api_calls = @ + 1]
    /\ api' = [IdleApi EXCEPT
                 !.pc = "update",
                 !.call = update_call(PyStr(job_id), status, res.given,
                                      res.result)]
    /\ ev' = NoEv
    /\ UNCHANGED <<svcVars, storeVars, counters, queue, kv, uuids, req, w, can, vg_redis>>

\* update_job: its GET, then its SET, are answered
api_update_step ==
    /\ api.pc = "update"
    /\ IF store_call(TRUE, storeUp) # "ok"
       THEN /\ api' = IdleApi
            /\ ev' = [NoEv EXCEPT !.op = OpEv("update_job", TRUE, storeUp, TRUE)]
            /\ UNCHANGED <<kv, hist>>
       ELSE IF api.call.sub = "get"
       THEN IF update_job_get(kv, api.call).sub = "set"
            THEN /\ api' = [api EXCEPT !.call = update_job_get(kv, @)]
                 /\ ev' = NoEv
                 /\ UNCHANGED <<kv, hist>>
            ELSE /\ api' = IdleApi
                 /\ ev' = [NoEv EXCEPT
                             !.op = OpEv("update_job", TRUE, storeUp, FALSE)]
                 /\ UNCHANGED <<kv, hist>>
       ELSE /\ kv' = update_job_set(kv, api.call)
            /\ api' = IdleApi
            /\ hist' = [hist EXCEPT
                          !.updates = @ + 1,
                          !.last = [args |-> call_args(api.call),
                                    text |-> dumps_job(api.call.job_data)]]
            /\ ev' = [NoEv EXCEPT
                        !.op = OpEv("update_job", TRUE, storeUp, FALSE),
                        !.upd = [wrote |-> TRUE,
                                 repeat |-> hist.last.args = call_args(api.call),
                                 prev |-> hist.last.text]]
    /\ UNCHANGED <<svcVars, storeVars, counters, queue, uuids, req, w, can, vg_redis>>

\* dequeue(queue_name, timeout) called by another consumer of the queue
api_dequeue(timeout) ==
    /\ api.pc = "idle"
    /\ hist.api_calls < MaxApiCalls
    /\ hist' = [hist EXCEPT !.api_calls = @ + 1]
    /\ api' = [IdleApi EXCEPT !.pc = "brpop", !.timeout = timeout]
    /\ ev' = NoEv
    /\ UNCHANGED <<svcVars, storeVars, counters, queue, kv, uuids, req, w, can, vg_redis>>

\* dequeue: its BRPOP is answered, with an element or, after the timeout,
\* with nil
api_dequeue_step ==
    /\ api.pc = "brpop"
    /\ IF store_call(TRUE, storeUp) # "ok"
       THEN /\ api' = IdleApi
            /\ ev' = [NoEv EXCEPT !.op = OpEv("dequeue", TRUE, storeUp, TRUE)]
            /\ UNCHANGED <<queue, hist>>
       ELSE /\ ~brpop_blocks(queue, api.timeout)
            /\ api' = IdleApi
            /\ IF queue = <<>>
               THEN /\ ev' = [NoEv EXCEPT
                                !.op = OpEv("dequeue", TRUE, storeUp, FALSE),
                                !.deq = [by |-> "api", timeout |-> api.timeout,
                                         id |-> ""]]
                    /\ UNCHANGED <<queue, hist>>
               ELSE /\ queue' = brpop_rest(queue)
                    /\ ev' = [NoEv EXCEPT
                                !.op = OpEv("dequeue", TRUE, storeUp, FALSE),
                                !.deq = [by |-> "api", timeout |-> api.timeout,
                                         id |-> str(loads_job(brpop_value(queue)).id)]]
                    /\ hist' = [hist EXCEPT
                                  !.popped = Append(@, str(loads_job(brpop_value(queue)).id))]
    /\ UNCHANGED <<svcVars, storeVars, counters, kv, uuids, req, w, can, vg_redis>>

\* video-gen's GET /jobs/{job_id} on a connected client: get_job and the
\* response
api_get_job_status(job_id) ==
    /\ api.pc = "idle"
    /\ hist.api_calls < MaxApiCalls
    /\ hist' = [hist EXCEPT !.api_calls = @ + 1]
    /\ IF store_call(TRUE, storeUp) # "ok"
       THEN ev' = [NoEv EXCEPT !.op = OpEv("get_job", TRUE, storeUp, TRUE)]
       ELSE ev' = [NoEv EXCEPT !.op = OpEv("get_job", TRUE, storeUp, FALSE),
                               !.poll = poll_event(kv, job_id)]
    /\ UNCHANGED <<svcVars, storeVars, counters, queue, kv, uuids, req, w, can, api,
                   vg_redis>>

(***************************************************************************)
(* The environment: the Redis server becomes unreachable and reachable     *)
(* again, and its clock advances, expiring keys.                           *)
(***************************************************************************)
StoreFails ==
    /\ storeUp
    /\ faults < MaxFaults
    /\ storeUp' = FALSE
    /\ faults' = faults + 1
    /\ ev' = NoEv
    /\ UNCHANGED <<svcVars, now, counters, queue, kv, uuids, req, w, can, api, vg_redis,
                   hist>>

StoreRecovers ==
    /\ ~storeUp
    /\ storeUp' = TRUE
    /\ ev' = NoEv
    /\ UNCHANGED <<svcVars, faults, now, counters, queue, kv, uuids, req, w, can, api,
                   vg_redis, hist>>

\* half a window passes
Tick ==
    LET t == now + window_seconds \div 2
        expired == {k \in RateKeys :
                      counters[k].ttl # -1 /\ counters[k].ttl <= t}
        reset(f) == [k \in RateKeys |-> IF k \in expired THEN 0 ELSE f[k]]
        clear(f) == [k \in RateKeys |-> IF k \in expired THEN FALSE ELSE f[k]]
    IN  /\ now < MaxTicks * (window_seconds \div 2)
        /\ now' = t
        /\ counters' = expire_keys(counters, t)
        /\ hist' = [hist EXCEPT
                      !.win = reset(@), !.allowed = reset(@),
                      !.denied = reset(@), !.raised = clear(@),
                      !.expired = @ \cup expired]
        /\ ev' = NoEv
        /\ UNCHANGED <<svcVars, storeUp, faults, queue, kv, uuids, req, w, can, api,
                       vg_redis>>

(***************************************************************************)
(* face-similarity: POST /upload stores the image under a fresh key and    *)
(* starts _schedule_deletion(key, delay_seconds=3) as a task.  After       *)
(* await file.read() the handler runs without an await, and so does the    *)
(* task after its sleep: each is one step of the event loop.  boto3 calls  *)
(* raise while the object store is unreachable.                            *)
(***************************************************************************)
\* f"face-quiz/{uuid.uuid4()}/{file.filename}" of the n-th upload
upload_key(n) == "face-quiz/" \o uuid4(n) \o "/me.jpg"

AllKeys == {upload_key(n) : n \in 1..MaxUploads}

NoTask == [pc |-> "none", began |-> 0, deletes |-> 0, out |-> "", gone |-> FALSE]

FaceInit ==
    [t |-> 0, up |-> TRUE, faults |-> 0, n |-> 0, calls |-> 0,
     objects |-> {}, uploaded |-> {},
     tasks |-> [key \in AllKeys |-> NoTask]]

\* a sleep that returns at once
sleep_none(began, seconds) == began

\* await asyncio.sleep(seconds) begun at time began returns no earlier than
sleep_until(began, seconds) == began + seconds

\* S3Client.delete_file: delete_object(Bucket, Key); an absent key is no
\* error
delete_file(objects, key) == objects \ {key}

\* a task without the try/except around the delete
deletion_task_unguarded(outcome) ==
    IF outcome = "failed" THEN "raised" ELSE "done"

\* _schedule_deletion: except Exception: logger.error(...); the task ends
deletion_task_end(outcome) == "done"

\* s3.get_presigned_url signs locally; botocore may raise from it
PresignOutcomes == {"ok", "raised"}

\* upload_and_compare from upload_bytes to the response
upload_and_compare ==
    /\ face.n < MaxUploads
    /\ LET key == upload_key(face.n + 1)
       IN  IF ~face.up
           THEN /\ face' = [face EXCEPT !.n = @ + 1]
                /\ ev' = [NoEv EXCEPT
                            !.fs = [op |-> "upload", key |-> key,
                                    outcome |-> "upload_raised"]]
           ELSE \E presign \in PresignOutcomes :
                  /\ face' = [face EXCEPT
                                !.n = @ + 1,
                                !.objects = @ \cup {key},
                                !.uploaded = @ \cup {key},
                                !.tasks[key] =
                                   IF presign = "ok"
                                   THEN [NoTask EXCEPT !.pc = "sleeping",
                                                       !.began = face.t]
                                   ELSE @]
                  /\ ev' = [NoEv EXCEPT
                              !.fs = [op |-> "upload", key |-> key,
                                      outcome |-> IF presign = "ok" THEN "ok"
                                                  ELSE "presign_raised"]]
    /\ UNCHANGED <<queueVars, poster>>

\* _schedule_deletion(key, delay_seconds) after its sleep: delete, log
schedule_deletion(key) ==
    LET task == face.tasks[key]
        outcome == IF face.up THEN "deleted" ELSE "failed"
    IN  /\ task.pc = "sleeping"
        /\ face.t >= sleep_until(task.began, delay_seconds)
        /\ face' = [face EXCEPT
                      !.objects = IF face.up THEN delete_file(@, key) ELSE @,
                      !.tasks[key] = [task EXCEPT
                                        !.pc = deletion_task_end(outcome),
                                        !.deletes = @ + 1,
                                        !.out = outcome,
                                        !.gone = key \notin face.objects]]
        /\ ev' = [NoEv EXCEPT
                    !.fs = [op |-> "schedule_deletion", key |-> key,
                            outcome |-> outcome]]
        /\ UNCHANGED <<queueVars, poster>>

\* S3Client.delete_file called for a key by another caller
delete_now(key) ==
    /\ face.calls < MaxDeletes
    /\ key \in face.uploaded
    /\ face' = [face EXCEPT
                  !.calls = @ + 1,
                  !.objects = IF face.up THEN delete_file(@, key) ELSE @]
    /\ ev' = [NoEv EXCEPT
                !.fs = [op |-> "delete_now", key |-> key,
                        outcome |-> IF face.up THEN "deleted" ELSE "raised"]]
    /\ UNCHANGED <<queueVars, poster>>

\* one second passes
FaceTick ==
    /\ face.t < MaxTime
    /\ face' = [face EXCEPT !.t = @ + 1]
    /\ ev' = NoEv
    /\ UNCHANGED <<queueVars, poster>>

S3Fails ==
    /\ face.up
    /\ face.faults < MaxS3Faults
    /\ face' = [face EXCEPT !.up = FALSE, !.faults = @ + 1]
    /\ ev' = NoEv
    /\ UNCHANGED <<queueVars, poster>>

S3Recovers ==
    /\ ~face.up
    /\ face' = [face EXCEPT !.up = TRUE]
    /\ ev' = NoEv
    /\ UNCHANGED <<queueVars, poster>>

(***************************************************************************)
(* ai-poster-api: jobs is a dict of the process; start_generation adds a   *)
(* job and hands generate_poster_task to BackgroundTasks.  The task is     *)
(* followed from one progress mark to the next; a step between two marks   *)
(* may raise, which the task's except Exception turns into status failed.  *)
(* Job ids are the first 8 characters of distinct uuid4 draws, taken to   *)
(* be distinct.                                                            *)
(***************************************************************************)
\* str(uuid.uuid4())[:8] of the n-th job
poster_job_id(n) == uuid4(n)

PosterIds == {poster_job_id(n) : n \in 1..MaxPosterJobs}

\* jobs[job_id] as start_generation creates it
NewPosterJob ==
    [status |-> "pending", progress |-> 0, result_url |-> PyNone,
     error |-> PyNone]

PosterInit ==
    [n |-> 0,
     jobs |-> [id \in {} |-> NewPosterJob],
     tasks |-> [id \in {} |-> [pc |-> "queued", mode |-> ""]]]

\* with REPLICATE_API_TOKEN unset the poster is composed locally
PosterModes == {"fallback", "replicate"}

\* the stages of generate_poster_task, in the order of the code
next_stage(pc, mode) ==
    CASE pc = "queued" -> "prepare"
      [] pc = "prepare" -> "load"
      [] pc = "load" -> IF mode = "fallback" THEN "text" ELSE "ai"
      [] pc = "ai" -> "download"
      [] pc = "download" -> "text"
      [] pc = "text" -> "save"
      [] pc = "save" -> "done"

\* jobs[job_id]["progress"] = ... at the start of each stage
stage_progress(pc) ==
    CASE pc = "prepare" -> 10
      [] pc = "load" -> 20
      [] pc = "ai" -> 40
      [] pc = "download" -> 70
      [] pc = "text" -> 85
      [] pc = "save" -> 95
      [] pc = "done" -> 100

\* the assignments that open a stage
enter_stage(job, job_id, pc) ==
    CASE pc = "prepare" ->
           [job EXCEPT !.status = "processing", !.progress = stage_progress(pc)]
      [] pc = "done" ->
           [job EXCEPT !.status = "completed", !.progress = stage_progress(pc),
                       !.result_url = PyStr("/static/" \o job_id \o ".jpg")]
      [] OTHER -> [job EXCEPT !.progress = stage_progress(pc)]

\* an except branch that also resets the progress
poster_failed_reset(job, message) ==
    [job EXCEPT !.status = "failed", !.error = PyStr(message), !.progress = 0]

\* except Exception as e: status = "failed"; error = str(e)
poster_failed(job, message) ==
    [job EXCEPT !.status = "failed", !.error = PyStr(message)]

\* POST /api/generate with a known celebrity, style and uploaded photo
start_generation ==
    /\ poster.n < MaxPosterJobs
    /\ LET job_id == poster_job_id(poster.n + 1)
       IN  poster' = [n |-> poster.n + 1,
                      jobs |-> (job_id :> NewPosterJob) @@ poster.jobs,
                      tasks |-> (job_id :> [pc |-> "queued", mode |-> ""])
                                   @@ poster.tasks]
    /\ ev' = NoEv
    /\ UNCHANGED <<queueVars, face>>

\* generate_poster_task reaches its next progress mark, or a call of the
\* current stage raises
generate_poster_task(job_id) ==
    /\ job_id \in DOMAIN poster.tasks
    /\ poster.tasks[job_id].pc # "done"
    /\ \E mode \in PosterModes, raised \in BOOLEAN, message \in {"", "boom"} :
         LET task == poster.tasks[job_id]
             m == IF task.pc = "queued" THEN mode ELSE task.mode
             pc == next_stage(task.pc, m)
         IN  /\ task.pc = "queued" => ~raised
             /\ raised \/ message = ""
             /\ task.pc # "queued" => mode = task.mode
             /\ poster' =
                  [poster EXCEPT
                     !.jobs[job_id] =
                        IF raised THEN poster_failed(@, message)
                        ELSE enter_stage(@, job_id, pc),
                     !.tasks[job_id] =
                        [pc |-> IF raised THEN "done" ELSE pc, mode |-> m]]
    /\ ev' = NoEv
    /\ UNCHANGED <<queueVars, face>>

(***************************************************************************)
(* Initial state: an empty store, the gateway serving, video-gen's         *)
(* lifespan having created the worker task.                                *)
(***************************************************************************)
Init ==
    /\ storeUp = TRUE
    /\ faults = 0
    /\ now = 0
    /\ counters = [k \in RateKeys |-> AbsentCounter]
    /\ queue = <<>>
    /\ kv = [k \in {} |-> dumps_job(NoJob)]
    /\ uuids = 0
    /\ req = [r \in Reqs |-> IdleReq]
    /\ w = IdleWorker
    /\ can = IdleCancel
    /\ api = IdleApi
    /\ vg_redis = "None"
    /\ face = FaceInit
    /\ poster = PosterInit
    /\ hist = [calls |-> 0, api_calls |-> 0,
               updates |-> 0, stop_called |-> FALSE,
               in_flight_at_stop |-> "", cancelled_in_queue |-> {}, errors |-> FALSE,
               errors_at |-> 0,
               win |-> [k \in RateKeys |-> 0],
               allowed |-> [k \in RateKeys |-> 0],
               denied |-> [k \in RateKeys |-> 0],
               raised |-> [k \in RateKeys |-> FALSE], expired |-> {},
               pushed |-> <<>>, popped |-> <<>>, ended |-> <<>>, depth |-> 0,
               last |-> [args |-> NoCall, text |-> NoText],
               enqueued |-> {}, returned |-> {}]
    /\ ev = NoEv

JobClients == {"10.0.0.1"}

\* the job pipeline: gateway requests one at a time, the worker, cancel_job
Next ==
    \/ \E ident \in JobClients, kind \in {"generate", "status"}, arg \in PathIds :
         Arrive(1, ident, kind, IF kind = "status" THEN arg ELSE "valid")
    \/ check_rate_limit_incr(1)
    \/ check_rate_limit_expire(1)
    \/ enqueue_lpush(1)
    \/ enqueue_set(1)
    \/ get_job_status(1)
    \/ start
    \/ stop
    \/ process_queue_begin
    \/ worker_connected
    \/ dequeue
    \/ process_job_update
    \/ generate
    \/ \E job_id \in PathIds : cancel_job_begin(job_id)
    \/ cancel_connected
    \/ cancel_job_update
    \/ StoreFails
    \/ StoreRecovers

Spec == Init /\ [][Next]_vars

\* the rate limiter by itself: concurrent requests from several clients to
\* a route that uses no store, over several windows
NextRate ==
    \/ \E r \in Reqs, ident \in Identities : Arrive(r, ident, "other", "")
    \/ \E r \in Reqs : check_rate_limit_incr(r)
    \/ \E r \in Reqs : check_rate_limit_expire(r)
    \/ StoreFails
    \/ StoreRecovers
    \/ Tick

SpecRate == Init /\ [][NextRate]_vars

\* the job operations called directly
NextApi ==
    \/ \E job_data \in ApiPayloads : api_enqueue(job_data)
    \/ api_enqueue_step
    \/ \E job_id \in PathIds, status \in ApiStatuses, res \in ApiResults :
         api_update_job(job_id, status, res)
    \/ api_update_step
    \/ \E job_id \in PathIds : api_get_job_status(job_id)
    \/ StoreFails
    \/ StoreRecovers

SpecApi == Init /\ [][NextApi]_vars

(***************************************************************************)
(* Properties.                                                             *)
(***************************************************************************)
IsPrefix(a, b) == Len(a) <= Len(b) /\ SubSeq(b, 1, Len(a)) = a

EnqueuedIds == {e.eid : e \in hist.enqueued}

\* C1: a job that enqueue returned an id for, that the worker dequeued and
\* whose generation callback returned a result, is stored as completed with
\* that result once the worker's update_job(job_id, "completed", result)
\* has returned.
C1_JobCompletes ==
    LET e == ev.end
    IN  (/\ e.how = "returned"
         /\ e.status = "completed"
         /\ ~e.propagated
         /\ e.eid \in EnqueuedIds)
        => /\ has_job(kv, PyStr(e.eid))
           /\ get_job(kv, PyStr(e.eid)).status = PyStr("completed")
           /\ get_job(kv, PyStr(e.eid)).has_result
           /\ get_job(kv, PyStr(e.eid)).result = e.result

\* C2: the job_id a generate handler returned to the client is never
\* answered 404 by the status handler.
C2_ReturnedIdFound ==
    ev.poll.job_id \in hist.returned => ev.poll.code # 404

\* C3: with the single worker, jobs are dequeued in the order they were
\* pushed, and their processing ends in that order.
C3_Fifo ==
    /\ IsPrefix(hist.popped, hist.pushed)
    /\ IsPrefix(hist.ended, hist.popped)

\* two jobs waited in the queue together and both have been processed
C3_Witness ==
    /\ hist.depth >= 2
    /\ Len(hist.ended) >= 2

\* a call on the key has done its INCR and waits for its EXPIRE
InFlight(key) ==
    \E r \in Reqs : req[r].pc = "expire" /\ client_key(req[r].ident) = key

Min(a, b) == IF a <= b THEN a ELSE b

\* C4: within one window of a key, the call whose INCR was the k-th returns
\* allowed = (k <= max_requests) and remaining = max(0, max_requests - k),
\* never negative; once the calls of a window in which none raised have all
\* returned, min(calls, max_requests) were allowed and the others denied.
C4_KthCall ==
    LET N == rate_limit_requests_per_minute
    IN  /\ ev.rl.outcome \in {"allowed", "denied"} =>
              /\ ev.rl.allowed = (ev.rl.k <= N)
              /\ ev.rl.remaining = Max(0, N - ev.rl.k)
              /\ ev.rl.remaining >= 0
        /\ \A key \in RateKeys :
              (~hist.raised[key] /\ ~InFlight(key)) =>
                 /\ hist.allowed[key] = Min(hist.win[key], N)
                 /\ hist.denied[key] = hist.win[key] - Min(hist.win[key], N)

\* a burst of max_requests + 5 calls in one window: max_requests allowed,
\* 5 denied, the last one just answered with remaining 0
C4_Witness ==
    \E key \in RateKeys :
        /\ ~hist.raised[key]
        /\ hist.allowed[key] = rate_limit_requests_per_minute
        /\ hist.denied[key] = 5
        /\ ev.rl.key = key
        /\ ev.rl.k = rate_limit_requests_per_minute + 5
        /\ ~ev.rl.allowed
        /\ ev.rl.remaining = 0

\* C5: a counter in the store has an expiry at most window_seconds ahead,
\* unless the call that created it is still between its INCR and its
\* EXPIRE; so no counter outlives its window.
C5_CounterExpires ==
    \A key \in RateKeys :
        /\ counters[key].ttl # -1 =>
              /\ counters[key].ttl > now
              /\ counters[key].ttl <= now + window_seconds
        /\ (counters[key].v > 0 /\ ~InFlight(key)) => counters[key].ttl # -1

\* C6: every INCR of a window is reflected: the counter equals the number
\* of calls that incremented it, each call observed its own place among
\* them (so the observed values are distinct), and of the calls of a window
\* in which none raised, min(calls, max_requests) were allowed.
C6_NoLostUpdates ==
    /\ \A key \in RateKeys : counters[key].v = hist.win[key]
    /\ ev.rl.outcome \in {"allowed", "denied"} => ev.rl.current = ev.rl.k
    /\ \A r \in Reqs : req[r].pc = "expire" => req[r].current = req[r].k
    /\ \A r1, r2 \in Reqs :
          (/\ r1 # r2
           /\ req[r1].pc = "expire"
           /\ req[r2].pc = "expire"
           /\ req[r1].ident = req[r2].ident) => req[r1].current # req[r2].current
    /\ \A key \in RateKeys :
          (~hist.raised[key] /\ ~InFlight(key)) =>
             hist.allowed[key] = Min(hist.win[key],
                                     rate_limit_requests_per_minute)

\* a call has run from its INCR to its return while the call that created
\* the counter was still waiting for its EXPIRE
C6_Witness ==
    /\ InFlight(ev.rl.key)
    /\ ev.rl.k >= 2
    /\ ev.rl.outcome = "allowed"
    /\ counters[ev.rl.key].v = ev.rl.k

\* C7: a rate-limit check made while the store is unreachable never hands
\* the request to its route handler, and a job operation called on a client
\* that is not connected, or while the store is unreachable, raises.
C7_FailClosed ==
    /\ (ev.rl.key # "" /\ ~ev.rl.up) => ev.rl.next # "call_next"
    /\ (ev.op.op # "" /\ (~ev.op.connected \/ ~ev.op.up)) => ev.op.raised

\* a request was just refused because its check raised, after a job
\* operation of the worker had raised as well
C7_Witness ==
    /\ ev.rl.key # ""
    /\ ~ev.rl.up
    /\ ev.rl.outcome = "raised"
    /\ ev.rl.next = "error"
    /\ hist.errors

\* C8: when the processing of a dequeued job whose generation callback
\* raised has ended, no exception has left _process_job and the job is
\* stored as failed with a non-empty error holding the exception's message.
C8_FailureCaptured ==
    LET e == ev.end
    IN  e.how = "raised" =>
           /\ ~e.propagated
           /\ has_job(kv, PyStr(e.eid))
           /\ get_job(kv, PyStr(e.eid)).status = PyStr("failed")
           /\ get_job(kv, PyStr(e.eid)).has_result
           /\ dict_get(get_job(kv, PyStr(e.eid)).result, "error") = PyStr(e.msg)
           /\ e.msg # ""

\* the worker's steps, which the event loop takes whenever the command they
\* wait for has been answered
WorkerNext ==
    \/ start
    \/ process_queue_begin
    \/ worker_connected
    \/ dequeue
    \/ process_job_update
    \/ generate

\* the job pipeline with a worker task that is scheduled, a connect() that
\* completes, and a store that comes back after a failure
SpecLive ==
    /\ Init /\ [][Next]_vars
    /\ WF_vars(WorkerNext)
    /\ WF_vars(cancel_connected)
    /\ WF_vars(StoreRecovers)

\* C9: the worker loop has ended only if running is false; and once an
\* exception has reached start(), jobs that wait in the queue are dequeued
\* and their processing ends, unless the worker is stopped.
C9_WorkerResilient ==
    /\ [](w.pc = "stopped" => ~w.running)
    /\ (hist.errors /\ Len(hist.ended) < Len(hist.pushed))
          ~> (Len(hist.ended) = Len(hist.pushed) \/ ~w.running)

\* after an exception reached start(), a job enqueued later has been
\* dequeued and its processing has ended, the worker still running
C9_Witness ==
    /\ hist.errors
    /\ w.running
    /\ Len(hist.popped) > hist.errors_at
    /\ Len(hist.ended) > hist.errors_at

\* C10: every job enqueue has stored is still stored, with the payload
\* enqueue was given and with its id, whatever update_job calls were made.
C10_PayloadPreserved ==
    \A e \in hist.enqueued :
        /\ has_job(kv, PyStr(e.eid))
        /\ get_job(kv, PyStr(e.eid)).data = e.data
        /\ get_job(kv, PyStr(e.eid)).id = PyStr(e.eid)

\* two update_job calls have written a job, the later one with a result
C10_Witness ==
    /\ hist.updates >= 2
    /\ \E e \in hist.enqueued :
          /\ get_job(kv, PyStr(e.eid)).has_result
          /\ get_job(kv, PyStr(e.eid)).status # PyStr("pending")
          /\ DOMAIN e.data # {"text"}

\* C11: an update_job that writes with the job id, status and result of the
\* update_job that wrote last leaves the stored envelope as that one left it.
C11_UpdateIdempotent ==
    (ev.upd.wrote /\ ev.upd.repeat) =>
        /\ has_job(kv, hist.last.args.job_id)
        /\ kv[job_key(hist.last.args.job_id)] = ev.upd.prev

\* the same update_job has just written a second time, with a result
C11_Witness ==
    /\ ev.upd.wrote
    /\ ev.upd.repeat
    /\ hist.last.args.given
    /\ hist.last.args.status \in {"completed", "failed"}

\* the status stored under a key
StoredStatus(store, key) == str(loads_job(store[key]).status)

\* the steps of pending -> processing -> {completed, failed}, and to cancelled
ForwardSteps ==
    {<<"pending", "processing">>, <<"processing", "completed">>,
     <<"processing", "failed">>, <<"pending", "cancelled">>,
     <<"processing", "cancelled">>}

\* C12: in every step, every stored job stays stored and its status stays
\* as it is or takes one step forward; a completed, failed or cancelled job
\* keeps its status.
C12_StatusMonotonic ==
    [][\A key \in DOMAIN kv :
          /\ key \in DOMAIN kv'
          /\ \/ StoredStatus(kv', key) = StoredStatus(kv, key)
             \/ <<StoredStatus(kv, key), StoredStatus(kv', key)>> \in ForwardSteps]_vars

\* a job was cancelled and the worker has processed it: it is still cancelled
C12_Witness ==
    /\ Len(hist.ended) >= 1
    /\ has_job(kv, PyStr(hist.ended[1]))
    /\ get_job(kv, PyStr(hist.ended[1])).status = PyStr("cancelled")

\* C13: a stored job has a result only if its status is completed or failed.
C13_ResultOnlyTerminal ==
    \A key \in DOMAIN kv :
        loads_job(kv[key]).has_result =>
            StoredStatus(kv, key) \in {"completed", "failed"}

\* cancel_job has just written a job the worker had taken from the queue:
\* the job is cancelled and has no result
C13_Witness ==
    /\ ev.op = OpEv("update_job", TRUE, TRUE, FALSE)
    /\ can.pc = "idle"
    /\ Len(hist.popped) >= 1
    /\ has_job(kv, PyStr(hist.popped[1]))
    /\ get_job(kv, PyStr(hist.popped[1])).status = PyStr("cancelled")
    /\ ~get_job(kv, PyStr(hist.popped[1])).has_result

\* C14: a status request for an id no enqueue has stored is answered 404,
\* and the step that answers a status request changes nothing in the store.
C14_UnknownJob ==
    /\ []((ev.poll.job_id # "" /\ ev.poll.job_id \notin EnqueuedIds)
             => ev.poll.code = 404)
    /\ [][(req[1].pc = "get" /\ req'[1].pc = "idle")
             => (kv' = kv /\ queue' = queue /\ counters' = counters)]_vars

\* with a job stored, a request for an id that was never enqueued has just
\* been answered 404
C14_Witness ==
    /\ DOMAIN kv # {}
    /\ ev.poll.job_id = "no-such-job"
    /\ ev.poll.code = 404
    /\ ~ev.op.raised

\* C19: a status request for a stored job whose status is failed, with the
\* error the worker's update_job(job_id, "failed", {"error": str(e)})
\* records, reports status failed and that error, not empty, as
\* error_message.
C19_FailedObservable ==
    LET job_id == PyStr(ev.poll.job_id)
    IN  (/\ ev.poll.code = 200
         /\ has_job(kv, job_id)
         /\ get_job(kv, job_id).status = PyStr("failed")
         /\ get_job(kv, job_id).has_result
         /\ "error" \in DOMAIN get_job(kv, job_id).result)
        => /\ ev.poll.status = PyStr("failed")
           /\ ev.poll.error_message = get_job(kv, job_id).result["error"]
           /\ ev.poll.error_message # PyStr("")

\* the keys enqueue has stored
EnqueuedKeys == {job_key(PyStr(eid)) : eid \in EnqueuedIds}

\* an update_job call that is about to read an id with no stored job, the
\* store reachable
UpdateMissing(pc, c) ==
    /\ pc = "update"
    /\ c.sub = "get"
    /\ ~has_job(kv, c.job_id)
    /\ storeUp

\* C15: an update_job for an id with no stored job, whether cancel_job's or
\* the worker's, returns without an error in that step and changes neither
\* the stored jobs nor the queue; no job:{id} entry exists but those enqueue
\* stored.
C15_UpdateMissingNoOp ==
    /\ [](DOMAIN kv \subseteq EnqueuedKeys)
    /\ [][(UpdateMissing(can.pc, can.call) /\ can' # can)
             => /\ can'.pc = "idle"
                /\ ev'.op = OpEv("update_job", TRUE, TRUE, FALSE)
                /\ kv' = kv
                /\ queue' = queue]_vars
    /\ [][(UpdateMissing(w.pc, w.call) /\ w'.call # w.call)
             => /\ ev'.op = OpEv("update_job", TRUE, TRUE, FALSE)
                /\ kv' = kv
                /\ queue' = queue]_vars

\* cancel_job for an id with no stored job has just returned, with a job
\* stored under another id and still pending
C15_Witness ==
    /\ ev.op = OpEv("update_job", TRUE, TRUE, FALSE)
    /\ can.pc = "idle"
    /\ hist.calls = MaxCalls
    /\ DOMAIN kv # {}
    /\ \A key \in DOMAIN kv : StoredStatus(kv, key) = "pending"


\* a worker and a second consumer on the same queue, with jobs enqueued by
\* the gateway; each BRPOP is answered by the store
NextPool ==
    \/ Arrive(1, "10.0.0.1", "generate", "valid")
    \/ check_rate_limit_incr(1)
    \/ check_rate_limit_expire(1)
    \/ enqueue_lpush(1)
    \/ enqueue_set(1)
    \/ start
    \/ process_queue_begin
    \/ worker_connected
    \/ dequeue
    \/ process_job_update
    \/ generate
    \/ \E timeout \in Timeouts : api_dequeue(timeout)
    \/ api_dequeue_step

SpecPool ==
    /\ Init /\ [][NextPool]_vars
    /\ WF_vars(WorkerNext)
    /\ WF_vars(api_dequeue_step)

NoDuplicates(seq) == \A i, j \in 1..Len(seq) : i # j => seq[i] # seq[j]

\* C16: with two consumers on the queue, no job is returned by dequeue
\* twice, every returned job was enqueued, and the worker's processing of a
\* job ends at most once.
C16_OneConsumer ==
    /\ NoDuplicates(hist.popped)
    /\ \A i \in 1..Len(hist.popped) :
         \E j \in 1..Len(hist.pushed) : hist.pushed[j] = hist.popped[i]
    /\ NoDuplicates(hist.ended)
    /\ ev.deq.id # "" => ev.deq.id # w.eid \/ ev.deq.by = "worker"

\* the second consumer has just been given a job while the worker is
\* processing another one
C16_Witness ==
    /\ ev.deq.by = "api"
    /\ ev.deq.id # ""
    /\ w.eid # ""
    /\ w.eid # ev.deq.id
    /\ w.pc \in {"update", "generate"}

\* C17: a dequeue that has been called returns, unless an envelope arrives
\* in the queue.
C17_BoundedWait ==
    [](api.pc = "brpop" => <>(api.pc = "idle" \/ queue # <<>>))


\* C18: when the processing of the job that was in flight at stop() has
\* ended, the job, if enqueue has returned its id, is stored as completed
\* or failed.
C18_GracefulStop ==
    LET e == ev.end
    IN  (e.eid # "" /\ e.eid = hist.in_flight_at_stop /\ e.eid \in EnqueuedIds)
           => /\ has_job(kv, PyStr(e.eid))
              /\ StoredStatus(kv, job_key(PyStr(e.eid))) \in {"completed", "failed"}


\* C20: when the processing of a job whose generation callback returned or
\* raised has ended, the job, if enqueue has returned its id, is stored as
\* completed or failed; this includes a processing that ended because a
\* status write raised.
C20_NoStuckJob ==
    LET e == ev.end
    IN  (e.how \in {"returned", "raised"} /\ e.eid \in EnqueuedIds)
           => /\ has_job(kv, PyStr(e.eid))
              /\ StoredStatus(kv, job_key(PyStr(e.eid))) \in {"completed", "failed"}


\* C24: a job that dequeue has just returned to the worker is stored under
\* job:{id} with status pending.
C24_EnvelopeBeforeJob ==
    (ev.deq.by = "worker" /\ ev.deq.id # "")
       => /\ has_job(kv, PyStr(ev.deq.id))
          /\ StoredStatus(kv, job_key(PyStr(ev.deq.id))) = "pending"


C28_CancelEffective ==
    w.pc = "generate" => w.eid \notin hist.cancelled_in_queue


\* C25: current_jobs is between 0 and max_concurrent, equals the number of
\* jobs dequeued whose processing has not ended, and is 0 when the worker
\* is processing no job.
C25_InFlightCounter ==
    /\ w.current_jobs \in 0..gpu_max_concurrent_jobs
    /\ w.current_jobs = Len(hist.popped) - Len(hist.ended)
    /\ w.eid = "" => w.current_jobs = 0

\* a job whose callback returned has ended, and now the processing of a
\* second job has ended with an exception of its status write leaving
\* _process_job
C25_Witness ==
    /\ Len(hist.ended) >= 2
    /\ ev.end.propagated
    /\ ev.end.how \in {"raised", "none"}
    /\ w.current_jobs = 0

\* the worker with a generation callback that may never end: every worker
\* step but the end of the callback is taken when it stays possible
WorkerNextHang ==
    \/ start
    \/ process_queue_begin
    \/ worker_connected
    \/ dequeue
    \/ process_job_update

SpecHang ==
    /\ Init /\ [][NextPool]_vars
    /\ WF_vars(WorkerNextHang)

\* C26: a job that waits in the queue is dequeued, also while the callback
\* of another job does not return.
C26_HungCallback == [](queue # <<>> => <>(queue = <<>>))


\* POST /videos/generate with every request body, through the rate limiter
\* and enqueue, with the status handler and store failures
NextValidate ==
    \/ \E name \in BodyNames : Arrive(1, "10.0.0.1", "generate", name)
    \/ \E arg \in PathIds : Arrive(1, "10.0.0.1", "status", arg)
    \/ check_rate_limit_incr(1)
    \/ check_rate_limit_expire(1)
    \/ enqueue_lpush(1)
    \/ enqueue_set(1)
    \/ get_job_status(1)
    \/ StoreFails
    \/ StoreRecovers

SpecValidate == Init /\ [][NextValidate]_vars

\* C23: a generate request whose body lacks a required field, has a
\* custom_message longer than 500 characters or a duration_seconds outside
\* {15, 30, 60} is answered 422, and no job with such a payload is pushed
\* or stored.
C23_ValidationRejects ==
    LET rejected(b) == \/ ~({"artist_id", "custom_message", "recipient_name"}
                               \subseteq b.fields)
                       \/ b.message_len > 500
                       \/ b.duration_seconds \notin {"15", "30", "60"}
        accepted(data) ==
            /\ dict_get(data, "duration_seconds")
                  \in {PyInt("15"), PyInt("30"), PyInt("60")}
            /\ \A name \in BodyNames :
                 RequestBodies[name].message_len > 500 =>
                    dict_get(data, "custom_message")
                       # PyStr(RequestBodies[name].custom_message)
    IN  /\ (ev.resp.code # 0 /\ rejected(RequestBodies[ev.resp.body]))
              => ev.resp.code = 422
        /\ \A i \in 1..Len(queue) : accepted(loads_job(queue[i]).data)
        /\ \A key \in DOMAIN kv : accepted(loads_job(kv[key]).data)


\* face-similarity by itself: uploads, their deletion tasks, time, and an
\* object store that may be unreachable
NextFace ==
    \/ upload_and_compare
    \/ \E key \in AllKeys : schedule_deletion(key)
    \/ FaceTick
    \/ S3Fails
    \/ S3Recovers

SpecFace == Init /\ [][NextFace]_vars

\* face-similarity with a caller that deletes uploaded objects itself
NextFaceDelete ==
    \/ NextFace
    \/ \E key \in AllKeys : delete_now(key)

SpecFaceDelete == Init /\ [][NextFaceDelete]_vars


\* the keys whose deletion task has been started
Scheduled == {key \in AllKeys : face.tasks[key].pc # "none"}

\* C21: an object whose deletion was scheduled is present while fewer than
\* delay_seconds have passed since; once the task's delete has succeeded
\* the object is absent; the task calls delete at most once, and its step
\* removes no other object.
C21_DeletionTiming ==
    /\ [](\A key \in Scheduled :
            LET task == face.tasks[key]
            IN  /\ face.t < task.began + delay_seconds => key \in face.objects
                /\ task.out = "deleted" => key \notin face.objects
                /\ task.deletes <= 1
                /\ task.pc = "done" => task.deletes = 1)
    /\ [][\A key \in AllKeys :
            schedule_deletion(key) =>
               /\ face.objects \ {key} = face.objects' \ {key}
               /\ face.uploaded' = face.uploaded]_vars

\* the first upload's object has been deleted by its task, three seconds
\* or more after the upload, while the second upload's object, scheduled
\* later, is still there
C21_Witness ==
    /\ face.tasks[upload_key(1)].out = "deleted"
    /\ face.tasks[upload_key(2)].pc = "sleeping"
    /\ face.tasks[upload_key(2)].began > face.tasks[upload_key(1)].began
    /\ upload_key(2) \in face.objects
    /\ upload_key(1) \notin face.objects

\* C22: a deletion task never ends with an exception, whether its delete
\* raised or found the object already deleted; it calls delete at most
\* once; and its step changes no other object, and no object at all when
\* the delete raises.
C22_BestEffort ==
    /\ [](\A key \in Scheduled :
            /\ face.tasks[key].pc \in {"sleeping", "done"}
            /\ face.tasks[key].deletes <= 1)
    /\ [][\A key \in AllKeys :
            schedule_deletion(key) =>
               /\ face.objects \ {key} = face.objects' \ {key}
               /\ ~face.up => face.objects' = face.objects
               /\ \A other \in AllKeys \ {key} :
                    face.tasks'[other] = face.tasks[other]]_vars

\* one task has ended after its delete raised, and another has ended after
\* finding its object already deleted by someone else
C22_Witness ==
    \E key, other \in AllKeys :
       /\ face.tasks[key].pc = "done"
       /\ face.tasks[key].out = "failed"
       /\ key \in face.objects
       /\ face.tasks[other].pc = "done"
       /\ face.tasks[other].gone
       /\ face.tasks[other].out = "deleted"

\* C27: every object upload_and_compare has stored has its deletion task.
C27_UploadScheduled == face.uploaded \subseteq Scheduled


\* ai-poster-api by itself
NextPoster ==
    \/ start_generation
    \/ \E job_id \in PosterIds : generate_poster_task(job_id)

SpecPoster == Init /\ [][NextPoster]_vars

====
